---- MODULE Spec2Model ----
(***************************************************************************)
(* A model of the semver tool: the version model (libs/version.rs), the    *)
(* release walk over the commit history (feature/retrieval.rs::get) and    *)
(* the loop of main() that tags and publishes the Releases                 *)
(* (feature/tagging.rs::tag, feature/release/github.rs::create).           *)
(* Texts (commit messages, tokens, tag names, e-mails) are TLA+ strings    *)
(* and every text operation of the code is computed character by           *)
(* character.                                                              *)
(***************************************************************************)
EXTENDS Integers, Sequences, FiniteSets, TLC

VARIABLES
    args,                 \* crate::Args: the command-line flags
    semver_data,          \* SemverData: the ruleset read from the JSON file
    branch,               \* head.shorthand(): the current branch name
    commit_tags,          \* HashMap<Oid, Tag>: commit id -> tag name
    commits,              \* Vec<Commit>, oldest first; truncated after the last tag
    pc,                   \* position of get(): start, walk, close, done, exited, panicked
    idx,                  \* position of the for loop over commits
    version,              \* the seed version
    releases,             \* Vec<Release>: the result
    current_release,      \* Option<Release>: <<>> or <<release>>
    release_version,      \* the running version
    release_majors,
    release_minors,
    release_patches,
    release_contributors,
    log,                  \* the lines written by warn!/error!/info! for the walked commits
    rel,                  \* position of the for loop of main() over releases
    repo_tags,            \* the tags this run created in the repository
    remote_tags,          \* the tag names this run pushed to origin
    hosted                \* the releases this run created on the hosting service

\* what only main() touches
main_vars == <<rel, repo_tags, remote_tags, hosted>>

vars == <<args, semver_data, branch, commit_tags, commits, pc, idx, version,
          releases, current_release, release_version, release_majors,
          release_minors, release_patches, release_contributors, log, main_vars>>

(***************************************************************************)
(* Text helpers (str methods of the Rust standard library).                *)
(***************************************************************************)
LowerLetters == <<"a","b","c","d","e","f","g","h","i","j","k","l","m",
                  "n","o","p","q","r","s","t","u","v","w","x","y","z">>
UpperLetters == <<"A","B","C","D","E","F","G","H","I","J","K","L","M",
                  "N","O","P","Q","R","S","T","U","V","W","X","Y","Z">>
DigitChars == <<"0","1","2","3","4","5","6","7","8","9">>

Range(f) == {f[i] : i \in DOMAIN f}

CharAt(s, i) == SubSeq(s, i, i)

Letters == Range(LowerLetters) \cup Range(UpperLetters)

\* [a-zA-Z]
IsLetter(c) == c \in Letters

\* \s of the regex crate, char::is_whitespace of split_whitespace
IsWhitespace(c) == c \in {" ", "\t", "\n", "\r", "\f"}

Digits == Range(DigitChars)

\* char::is_digit(10)
IsDigit(c) == c \in Digits

\* str::contains(&str): t occurs in s as a substring
Contains(s, t) ==
    \E i \in 1..(Len(s) - Len(t) + 1) : SubSeq(s, i, i + Len(t) - 1) = t

\* char::to_uppercase on the letters of the alphabet
UpperChar(c) ==
    IF c \in Range(LowerLetters)
    THEN UpperLetters[CHOOSE i \in 1..26 : LowerLetters[i] = c]
    ELSE c

RECURSIVE ToUpper(_)
\* str::to_uppercase
ToUpper(s) ==
    IF Len(s) = 0 THEN "" ELSE UpperChar(CharAt(s, 1)) \o ToUpper(SubSeq(s, 2, Len(s)))

RECURSIVE Split(_, _)
\* str::split(char).collect(): the pieces between the separators, "" included
Split(s, sep) ==
    IF \E i \in 1..Len(s) : CharAt(s, i) = sep
    THEN LET i == CHOOSE k \in 1..Len(s) :
                    /\ CharAt(s, k) = sep
                    /\ \A j \in 1..(k - 1) : CharAt(s, j) # sep
         IN  <<SubSeq(s, 1, i - 1)>> \o Split(SubSeq(s, i + 1, Len(s)), sep)
    ELSE <<s>>

RECURSIVE FilterDigits(_)
\* chars().filter(|c| c.is_digit(10)).collect::<String>()
FilterDigits(s) ==
    IF Len(s) = 0 THEN ""
    ELSE (IF IsDigit(CharAt(s, 1)) THEN CharAt(s, 1) ELSE "")
         \o FilterDigits(SubSeq(s, 2, Len(s)))

DigitValue(c) == (CHOOSE i \in 1..10 : DigitChars[i] = c) - 1

RECURSIVE DigitsToNat(_)
DigitsToNat(s) ==
    IF Len(s) = 0 THEN 0
    ELSE 10 * DigitsToNat(SubSeq(s, 1, Len(s) - 1)) + DigitValue(CharAt(s, Len(s)))

RECURSIVE StripLeadingZeros(_)
StripLeadingZeros(s) ==
    IF Len(s) > 1 /\ CharAt(s, 1) = "0" THEN StripLeadingZeros(SubSeq(s, 2, Len(s))) ELSE s

RECURSIVE DigitsLeq(_, _)
\* a <= b for two numerals of the same length
DigitsLeq(a, b) ==
    IF Len(a) = 0 THEN TRUE
    ELSE \/ DigitValue(CharAt(a, 1)) < DigitValue(CharAt(b, 1))
         \/ /\ CharAt(a, 1) = CharAt(b, 1)
            /\ DigitsLeq(SubSeq(a, 2, Len(a)), SubSeq(b, 2, Len(b)))

\* the numeral is at most u32::MAX = 4294967295
FitsU32(s) ==
    LET t == StripLeadingZeros(s)
    IN  Len(t) < 10 \/ (Len(t) = 10 /\ DigitsLeq(t, "4294967295"))

\* n = u32::MAX, written with numbers TLC can hold: 4294967295 = 2 * 2147483647 + 1
IsU32Max(n) == n \div 2 = 2147483647 /\ n % 2 = 1

\* str::parse::<u32>() on a text of digits: Err on the empty text and above u32::MAX
ParseU32(s) ==
    IF Len(s) = 0 \/ ~FitsU32(s)
    THEN [ok |-> FALSE, value |-> 0]
    ELSE [ok |-> TRUE, value |-> DigitsToNat(s)]

RECURSIVE NatToString(_)
\* u32::to_string
NatToString(n) ==
    IF n < 10 THEN DigitChars[n + 1]
    ELSE NatToString(n \div 10) \o DigitChars[(n % 10) + 1]

\* split_whitespace().next(): the first maximal run of non-whitespace, <<>> if none
FirstWord(s) ==
    IF \A i \in 1..Len(s) : IsWhitespace(CharAt(s, i)) THEN <<>>
    ELSE LET b == CHOOSE k \in 1..Len(s) :
                    /\ ~IsWhitespace(CharAt(s, k))
                    /\ \A j \in 1..(k - 1) : IsWhitespace(CharAt(s, j))
             e == CHOOSE k \in b..Len(s) :
                    /\ \A j \in b..k : ~IsWhitespace(CharAt(s, j))
                    /\ (k = Len(s) \/ IsWhitespace(CharAt(s, k + 1)))
         IN  <<SubSeq(s, b, e)>>

(***************************************************************************)
(* The version model, libs/version.rs.  An Option<String> is <<>> (None)   *)
(* or <<text>> (Some).                                                     *)
(***************************************************************************)
CommitTypes == {"Major", "Minor", "Patch"}

\* SemanticVersion::new
NewVersion ==
    [major |-> 0, minor |-> 0, patch |-> 0,
     delta_major |-> 0, delta_minor |-> 0, delta_patch |-> 0,
     prefix |-> <<>>, suffix |-> <<>>]

\* PartialEq for SemanticVersion
VersionEq(a, b) == a.major = b.major /\ a.minor = b.minor /\ a.patch = b.patch

\* increment_by with a Major that forgets to reset patch
IncrementByKeepsPatch(v, commit_type, value) ==
    CASE commit_type = "Major" ->
            [v EXCEPT !.major = @ + value, !.minor = 0, !.delta_minor = 0]
      [] commit_type = "Minor" ->
            [v EXCEPT !.minor = @ + value, !.delta_major = @ + value,
                      !.patch = 0, !.delta_patch = 0]
      [] commit_type = "Patch" ->
            [v EXCEPT !.patch = @ + value, !.delta_patch = @ + value]

\* increment_by with a Major that assigns instead of adding
IncrementByAssigns(v, commit_type, value) ==
    CASE commit_type = "Major" ->
            [v EXCEPT !.major = value, !.minor = 0, !.delta_minor = 0, !.patch = 0]
      [] commit_type = "Minor" ->
            [v EXCEPT !.minor = @ + value, !.delta_major = @ + value,
                      !.patch = 0, !.delta_patch = 0]
      [] commit_type = "Patch" ->
            [v EXCEPT !.patch = @ + value, !.delta_patch = @ + value]

\* SemanticVersion::increment_by (the components stay far below 2^32 here)
IncrementBy(v, commit_type, value) ==
    CASE commit_type = "Major" ->
            [v EXCEPT !.major = @ + value, !.minor = 0, !.delta_minor = 0, !.patch = 0]
      [] commit_type = "Minor" ->
            [v EXCEPT !.minor = @ + value, !.delta_major = @ + value,
                      !.patch = 0, !.delta_patch = 0]
      [] commit_type = "Patch" ->
            [v EXCEPT !.patch = @ + value, !.delta_patch = @ + value]

\* SemanticVersion::increment
Increment(v, commit_type) == IncrementBy(v, commit_type, 1)

\* parse with the numeric core always taken from the first piece
ParseFirstPiece(text) ==
    LET parts == Split(text, "-")
        version_parts == Split(parts[1], ".")
        major == ParseU32(FilterDigits(version_parts[1]))
        minor == IF Len(version_parts) > 1
                 THEN ParseU32(FilterDigits(version_parts[2]))
                 ELSE [ok |-> TRUE, value |-> 0]
        patch == IF Len(version_parts) > 2
                 THEN ParseU32(FilterDigits(version_parts[3]))
                 ELSE [ok |-> TRUE, value |-> 0]
    IN  [ok |-> major.ok /\ minor.ok /\ patch.ok,
         v  |-> [major |-> major.value, minor |-> minor.value, patch |-> patch.value,
                 delta_major |-> 0, delta_minor |-> 0, delta_patch |-> 0,
                 prefix |-> IF Len(parts) > 1 THEN <<parts[1]>> ELSE <<>>,
                 suffix |-> IF Len(parts) > 2 THEN <<parts[3]>> ELSE <<>>]]

\* SemanticVersion::parse: ok is FALSE where an unwrap() of the code panics
Parse(text) ==
    LET parts == Split(text, "-")
        version_part_index == IF Len(parts) > 1 THEN 1 ELSE 0
        version_parts == Split(parts[version_part_index + 1], ".")
        major == ParseU32(FilterDigits(version_parts[1]))
        minor == IF Len(version_parts) > 1
                 THEN ParseU32(FilterDigits(version_parts[2]))
                 ELSE [ok |-> TRUE, value |-> 0]
        patch == IF Len(version_parts) > 2
                 THEN ParseU32(FilterDigits(version_parts[3]))
                 ELSE [ok |-> TRUE, value |-> 0]
    IN  [ok |-> major.ok /\ minor.ok /\ patch.ok,
         v  |-> [major |-> major.value, minor |-> minor.value, patch |-> patch.value,
                 delta_major |-> 0, delta_minor |-> 0, delta_patch |-> 0,
                 prefix |-> IF Len(parts) > 1 THEN <<parts[1]>> ELSE <<>>,
                 suffix |-> IF Len(parts) > 2 THEN <<parts[3]>> ELSE <<>>]]

\* to_string with the prefix joined without its separator
VersionToStringJoined(v) ==
    LET s1 == NatToString(v.major)
        s2 == IF ~IsU32Max(v.minor) THEN s1 \o "." \o NatToString(v.minor) ELSE s1
        s3 == IF ~IsU32Max(v.patch) THEN s2 \o "." \o NatToString(v.patch) ELSE s2
        s4 == IF v.prefix # <<>> THEN v.prefix[1] \o s3 ELSE s3
    IN  IF v.suffix # <<>> THEN s4 \o "-" \o v.suffix[1] ELSE s4

\* Display for SemanticVersion (to_string)
VersionToString(v) ==
    LET s1 == NatToString(v.major)
        s2 == IF ~IsU32Max(v.minor) THEN s1 \o "." \o NatToString(v.minor) ELSE s1
        s3 == IF ~IsU32Max(v.patch) THEN s2 \o "." \o NatToString(v.patch) ELSE s2
        s4 == IF v.prefix # <<>> THEN v.prefix[1] \o "-" \o s3 ELSE s3
    IN  IF v.suffix # <<>> THEN s4 \o "-" \o v.suffix[1] ELSE s4

(***************************************************************************)
(* The commit classifier and the release triggers, feature/retrieval.rs.   *)
(***************************************************************************)
RECURSIVE HeaderScan(_, _, _)
\* The automaton of ^([a-zA-Z]+\s*)+(\([a-zA-Z]+\)|)(!?): read from position i in
\* state q: the position of the ':' that ends the match, 0 when there is none.
HeaderScan(s, i, q) ==
    IF i > Len(s) THEN 0
    ELSE LET c == CharAt(s, i)
         IN  CASE q = "start" ->
                    IF IsLetter(c) THEN HeaderScan(s, i + 1, "word") ELSE 0
               [] q \in {"word", "space"} ->
                    IF IsLetter(c) THEN HeaderScan(s, i + 1, "word")
                    ELSE IF IsWhitespace(c) THEN HeaderScan(s, i + 1, "space")
                    ELSE IF c = "(" THEN HeaderScan(s, i + 1, "open")
                    ELSE IF c = "!" THEN HeaderScan(s, i + 1, "bang")
                    ELSE IF c = ":" THEN i
                    ELSE 0
               [] q = "open" ->
                    IF IsLetter(c) THEN HeaderScan(s, i + 1, "scope") ELSE 0
               [] q = "scope" ->
                    IF IsLetter(c) THEN HeaderScan(s, i + 1, "scope")
                    ELSE IF c = ")" THEN HeaderScan(s, i + 1, "closed")
                    ELSE 0
               [] q = "closed" ->
                    IF c = "!" THEN HeaderScan(s, i + 1, "bang")
                    ELSE IF c = ":" THEN i
                    ELSE 0
               [] q = "bang" ->
                    IF c = ":" THEN i ELSE 0

\* regex_str.captures(commit_message): <<>> (None) or <<[g0, g3]>>, g0 the whole
\* match (captures.get(0)) and g3 the third group (!?)
Captures(commit_message) ==
    LET e == HeaderScan(commit_message, 1, "start")
    IN  IF e = 0 THEN <<>>
        ELSE <<[g0 |-> SubSeq(commit_message, 1, e),
                g3 |-> IF CharAt(commit_message, e - 1) = "!" THEN "!" ELSE ""]>>

\* follows_format
FollowsFormat(commit_message) == Captures(commit_message) # <<>>

\* is_major with the group count compared one too high (captures.len() > 4)
IsMajorGroupCount(commit_message) == FALSE

\* is_major
IsMajor(commit_message) ==
    /\ Captures(commit_message) # <<>>
    /\ Captures(commit_message)[1].g3 = "!"

\* first_word: the whole match, or the first whitespace-delimited word; <<>> where
\* split_whitespace().next().unwrap() panics
FirstWordOf(commit_message) ==
    IF Captures(commit_message) # <<>>
    THEN <<Captures(commit_message)[1].g0>>
    ELSE FirstWord(commit_message)

\* the condition of the inner loop that matches a token of the map
TokenMatches(first_word, value) ==
    \/ semver_data.commits.case_sensitive /\ first_word = value
    \/ ~semver_data.commits.case_sensitive /\ Contains(first_word, value)

\* the match on key.to_uppercase(), with the fallback on default.to_uppercase()
KeyCommitType(key) ==
    CASE ToUpper(key) = "MAJOR" -> "Major"
      [] ToUpper(key) = "MINOR" -> "Minor"
      [] ToUpper(key) = "PATCH" -> "Patch"
      [] OTHER ->
            CASE ToUpper(semver_data.commits.default) = "MAJOR" -> "Major"
              [] ToUpper(semver_data.commits.default) = "MINOR" -> "Minor"
              [] ToUpper(semver_data.commits.default) = "PATCH" -> "Patch"
              [] OTHER -> "Patch"

RECURSIVE MapLoop(_, _, _, _, _)
\* The loop over semver_data.commits.map from its k-th entry (in the map's
\* iteration order): the inner loop sets commit_type on the first token that
\* matches and leaves the inner loop only; the non-formatted check sits inside
\* the outer loop.  errors counts the error! lines.
MapLoop(k, commit_type, first_word, follows_format, errors) ==
    IF k > Len(semver_data.commits.map)
    THEN [commit_type |-> commit_type, skip |-> FALSE, exit |-> FALSE, errors |-> errors]
    ELSE LET entry == semver_data.commits.map[k]
             ct == IF \E j \in 1..Len(entry.value) : TokenMatches(first_word, entry.value[j])
                   THEN KeyCommitType(entry.key)
                   ELSE commit_type
         IN  IF ~follows_format
             THEN IF args.skip_non_formatted
                  THEN [commit_type |-> ct, skip |-> TRUE, exit |-> FALSE, errors |-> errors]
                  ELSE IF args.exit_on_error
                  THEN [commit_type |-> ct, skip |-> FALSE, exit |-> TRUE,
                        errors |-> errors + 1]
                  ELSE MapLoop(k + 1, ct, first_word, follows_format, errors + 1)
             ELSE MapLoop(k + 1, ct, first_word, follows_format, errors)

\* the override without the breaking marker
BreakingOverrideDropped(commit_type, is_major) == commit_type

\* if is_major { commit_type = CommitType::Major }
BreakingOverride(commit_type, is_major) ==
    IF is_major THEN "Major" ELSE commit_type

\* the force flags read on every commit but the newest
ForcedReleaseTypeNotLast(is_last) ==
    IF ~is_last
    THEN IF args.force_release THEN "Release"
         ELSE IF args.force_prerelease THEN "PreRelease"
         ELSE "None"
    ELSE "None"

\* release_type as the loop body first sets it: the force flags on the newest commit
ForcedReleaseType(is_last) ==
    IF is_last
    THEN IF args.force_release THEN "Release"
         ELSE IF args.force_prerelease THEN "PreRelease"
         ELSE "None"
    ELSE "None"

\* the triggers without the one on CommitType::Major
TriggeredReleaseTypeTokensOnly(release_type, first_word, commit_type) ==
    LET released ==
            IF \E j \in 1..Len(semver_data.commits.release) :
                  Contains(first_word, "(" \o semver_data.commits.release[j] \o ")")
            THEN "Release"
            ELSE release_type
    IN  IF \E j \in 1..Len(semver_data.commits.prerelease) :
               Contains(first_word, "(" \o semver_data.commits.prerelease[j] \o ")")
        THEN "PreRelease"
        ELSE released

\* the triggers with the release trigger read after the prerelease trigger
TriggeredReleaseTypeReleaseLast(release_type, first_word, commit_type) ==
    LET prereleased ==
            IF \E j \in 1..Len(semver_data.commits.prerelease) :
                  Contains(first_word, "(" \o semver_data.commits.prerelease[j] \o ")")
            THEN "PreRelease"
            ELSE release_type
    IN  IF \/ \E j \in 1..Len(semver_data.commits.release) :
                  Contains(first_word, "(" \o semver_data.commits.release[j] \o ")")
           \/ commit_type = "Major"
        THEN "Release"
        ELSE prereleased

\* "Trigger Release." and "Trigger Prerelease."
TriggeredReleaseType(release_type, first_word, commit_type) ==
    LET released ==
            IF \/ \E j \in 1..Len(semver_data.commits.release) :
                     Contains(first_word, "(" \o semver_data.commits.release[j] \o ")")
               \/ commit_type = "Major"
            THEN "Release"
            ELSE release_type
    IN  IF \E j \in 1..Len(semver_data.commits.prerelease) :
               Contains(first_word, "(" \o semver_data.commits.prerelease[j] \o ")")
        THEN "PreRelease"
        ELSE released

\* Regex::new(pattern).is_ok() for the patterns of the model: letters with an
\* optional leading ^ and trailing $, and groups; an unbalanced group is invalid
RegexIsValid(pattern) ==
    /\ Cardinality({i \in 1..Len(pattern) : CharAt(pattern, i) = "("})
         = Cardinality({i \in 1..Len(pattern) : CharAt(pattern, i) = ")"})
    /\ \A i \in 1..Len(pattern) :
          Cardinality({j \in 1..i : CharAt(pattern, j) = ")"})
            <= Cardinality({j \in 1..i : CharAt(pattern, j) = "("})

\* Regex::is_match for a valid pattern without groups: an unanchored search
RegexIsMatch(pattern, text) ==
    LET at_start == Len(pattern) > 0 /\ CharAt(pattern, 1) = "^"
        at_end == Len(pattern) > 0 /\ CharAt(pattern, Len(pattern)) = "$"
        literal == SubSeq(pattern, IF at_start THEN 2 ELSE 1,
                          IF at_end THEN Len(pattern) - 1 ELSE Len(pattern))
    IN  CASE at_start /\ at_end -> text = literal
          [] at_start /\ ~at_end ->
                Len(literal) <= Len(text) /\ SubSeq(text, 1, Len(literal)) = literal
          [] ~at_start /\ at_end ->
                /\ Len(literal) <= Len(text)
                /\ SubSeq(text, Len(text) - Len(literal) + 1, Len(text)) = literal
          [] OTHER -> Contains(text, literal)

RECURSIVE FindBranchRule(_)
\* semver_data.branches.iter().find(|x| Regex::new(x.name).unwrap().is_match(branch))
\* from the k-th rule: the first rule that matches; panic where the unwrap() of an
\* invalid pattern is reached first
FindBranchRule(k) ==
    IF k > Len(semver_data.branches) THEN [panic |-> FALSE, rule |-> <<>>]
    ELSE IF ~RegexIsValid(semver_data.branches[k].name)
    THEN [panic |-> TRUE, rule |-> <<>>]
    ELSE IF RegexIsMatch(semver_data.branches[k].name, branch)
    THEN [panic |-> FALSE, rule |-> <<semver_data.branches[k]>>]
    ELSE FindBranchRule(k + 1)

\* the release type after the branch rule (branch_rules.prerelease)
BranchReleaseType(release_type, branch_rules) ==
    IF /\ branch_rules # <<>>
       /\ release_type # "None"
       /\ branch_rules[1].prerelease = <<TRUE>>
    THEN "PreRelease"
    ELSE release_type

\* can_increment without the increment list of the rule
CanIncrementIgnoringList(release_type, commit_type, branch_rules) ==
    release_type # "None"

\* can_increment after the branch rule (branch_rules.increment)
CanIncrement(release_type, commit_type, branch_rules) ==
    IF branch_rules # <<>> /\ branch_rules[1].increment # <<>>
    THEN \E j \in 1..Len(branch_rules[1].increment[1]) :
            branch_rules[1].increment[1][j] = commit_type
    ELSE release_type # "None"

bad_emails == <<"noreply.">>

\* the contributors list with every author appended
AddContributorAlways(contributors, author) ==
    IF \E j \in 1..Len(bad_emails) : Contains(author.email, bad_emails[j])
    THEN contributors
    ELSE Append(contributors, author)

\* the contributors list with authors told apart by equal e-mails
AddContributorByEquality(contributors, author) ==
    IF \E j \in 1..Len(bad_emails) : Contains(author.email, bad_emails[j])
    THEN contributors
    ELSE IF \E j \in 1..Len(contributors) : contributors[j].email = author.email
    THEN contributors
    ELSE Append(contributors, author)

\* the contributors list after the commit's author
AddContributor(contributors, author) ==
    IF \E j \in 1..Len(bad_emails) : Contains(author.email, bad_emails[j])
    THEN contributors
    ELSE IF \E j \in 1..Len(contributors) : Contains(contributors[j].email, author.email)
    THEN contributors
    ELSE Append(contributors, author)

(***************************************************************************)
(* The inputs: the repository (commits, tags, branch), the flags and the   *)
(* ruleset.                                                                *)
(***************************************************************************)
MaxCommits == 2

Alice == [name |-> "alice", email |-> "a@x.io"]
Bob == [name |-> "bob", email |-> "bob@x.io"]
Bot == [name |-> "bot", email |-> "bot@users.noreply.github.com"]
Carol == [name |-> "carol", email |-> "aa@x.io"]

\* what a commit carries besides its id
CommitKinds ==
    { [message |-> "feat: add x", author |-> Alice],
      [message |-> "fix: y", author |-> Alice],
      [message |-> "fix!: breaking z", author |-> Bob],
      [message |-> "wip", author |-> Bob],
      [message |-> "feat(rel): a", author |-> Bob],
      [message |-> "fix(pre): b", author |-> Bot] }

\* the three commits of the worked example of the specification, oldest first
ExampleTail ==
    << [message |-> "feat: add x", author |-> Alice],
       [message |-> "fix: y", author |-> Alice],
       [message |-> "fix!: breaking z", author |-> Bob] >>

\* commits that only come alone
RareKinds ==
    { [message |-> "FEAT: x", author |-> Alice],
      [message |-> "feat fix: both", author |-> Alice],
      [message |-> "fix(pre)!: c", author |-> Alice],
      [message |-> "x(rel)(pre) d", author |-> Bob],
      [message |-> "", author |-> Alice],
      [message |-> " ", author |-> Alice] }

\* two commits with a prerelease trigger: one whose first word also holds a
\* release trigger, one that is also breaking
PrereleaseTail ==
    << [message |-> "x(rel)(pre) d", author |-> Bob],
       [message |-> "fix(pre)!: c", author |-> Alice] >>

\* two commits, the e-mail of the second author being a part of the first one's
SubstringTail ==
    << [message |-> "fix: y", author |-> Carol],
       [message |-> "fix!: breaking z", author |-> Alice] >>

\* a commit with an empty message, followed by a commit with a well-formed one
EmptyMessageTail ==
    << [message |-> "", author |-> Alice],
       [message |-> "feat: add x", author |-> Alice] >>

Tails ==
    UNION { [1..n -> CommitKinds] : n \in 0..MaxCommits }
    \cup {ExampleTail, SubstringTail, PrereleaseTail, EmptyMessageTail}
    \cup { <<k>> : k \in RareKinds }

\* the commit on which the last tag sits
BaseCommit == [message |-> "chore: release", author |-> Alice]

\* the names of the last tag; <<>> for a repository without tags
TagNames == { <<>>, <<"1.0.0">>, <<"v-0.1.2-rc">>, <<"1.0.0-rc">>, <<"4294967296.0.0">> }

\* the history, oldest first, each commit with its id
History(tag, tail) ==
    LET kinds == IF tag = <<>> THEN tail ELSE <<BaseCommit>> \o tail
    IN  [i \in 1..Len(kinds) |->
            [id |-> i, message |-> kinds[i].message, author |-> kinds[i].author]]

Flags ==
    [force_release : BOOLEAN, force_prerelease : BOOLEAN, always_increment : BOOLEAN,
     skip_non_formatted : BOOLEAN, exit_on_error : BOOLEAN]

\* every iteration order of a HashMap with these entries
Orders(entries) ==
    { [i \in 1..Cardinality(entries) |-> f[i]] :
        f \in { g \in [1..Cardinality(entries) -> entries] :
                  \A i, j \in 1..Cardinality(entries) : i # j => g[i] # g[j] } }

ExampleMap ==
    { [key |-> "Major", value |-> <<"!">>],
      [key |-> "Minor", value |-> <<"feat">>],
      [key |-> "Patch", value |-> <<"fix">>] }

TriggerMap ==
    { [key |-> "minor", value |-> <<"feat">>],
      [key |-> "patch", value |-> <<"fix">>] }

\* the ruleset most inputs are combined with
DefaultRules ==
    [default |-> "minor", case_sensitive |-> FALSE, release |-> <<"rel">>,
     prerelease |-> <<"pre">>,
     map |-> << [key |-> "minor", value |-> <<"feat">>],
                [key |-> "patch", value |-> <<"fix">>] >>]

CommitRules ==
    { [default |-> "PATCH", case_sensitive |-> FALSE, release |-> <<>>,
       prerelease |-> <<>>, map |-> m] : m \in Orders(ExampleMap) }
    \cup
    { [default |-> "PATCH", case_sensitive |-> FALSE, release |-> <<>>,
       prerelease |-> <<>>, map |-> <<>>] }
    \cup
    { [DefaultRules EXCEPT !.map = m] : m \in Orders(TriggerMap) }
    \cup
    { [DefaultRules EXCEPT !.case_sensitive = TRUE] }

BranchRuleSets ==
    { <<>>,
      << [name |-> "main", prerelease |-> <<TRUE>>, increment |-> <<>>] >>,
      << [name |-> "main", prerelease |-> <<>>, increment |-> << <<"Minor", "Patch">> >>] >>,
      << [name |-> "^dev$", prerelease |-> <<TRUE>>, increment |-> <<>>],
         [name |-> "main", prerelease |-> <<FALSE>>, increment |-> << <<"Major">> >>] >>,
      << [name |-> "^dev$", prerelease |-> <<TRUE>>, increment |-> << <<"Patch">> >>] >>,
      << [name |-> "main", prerelease |-> <<TRUE>>, increment |-> << <<"Minor", "Patch">> >>] >>,
      << [name |-> "(main", prerelease |-> <<>>, increment |-> <<>>] >>,
      << [name |-> "main", prerelease |-> <<>>, increment |-> <<>>],
         [name |-> "(dev", prerelease |-> <<>>, increment |-> <<>>] >> }

\* The inputs of a run: every flag setting and every tail of commits, combined
\* with each ruleset, with each set of branch rules and with each last tag.
Inputs ==
    { [rules |-> c, branches |-> <<>>, tag |-> <<"1.0.0">>] : c \in CommitRules }
    \cup
    { [rules |-> DefaultRules, branches |-> b, tag |-> <<"1.0.0">>] : b \in BranchRuleSets }
    \cup
    { [rules |-> DefaultRules, branches |-> <<>>, tag |-> t] : t \in TagNames }

\* the locals of get() and of main() before their first statement
InitLocals ==
    /\ rel = 1
    /\ repo_tags = <<>>
    /\ remote_tags = <<>>
    /\ hosted = <<>>

Init ==
    /\ args \in Flags
    /\ \E in \in Inputs, tail \in Tails :
          /\ Len(History(in.tag, tail)) > 0
          /\ semver_data = [commits |-> in.rules, branches |-> in.branches]
          /\ commits = History(in.tag, tail)
          /\ commit_tags = IF in.tag = <<>> THEN <<>> ELSE <<in.tag[1]>>
    /\ InitLocals
    /\ branch = "main"
    /\ pc = "start"
    /\ idx = 0
    /\ version = NewVersion
    /\ releases = <<>>
    /\ current_release = <<>>
    /\ release_version = NewVersion
    /\ release_majors = <<>>
    /\ release_minors = <<>>
    /\ release_patches = <<>>
    /\ release_contributors = <<>>
    /\ log = <<>>

(***************************************************************************)
(* get(), feature/retrieval.rs.                                            *)
(***************************************************************************)
\* last_commit_index: one past the last tagged commit, 0 without any
LastCommitIndex ==
    IF \E i \in 1..Len(commits) : commits[i].id \in DOMAIN commit_tags
    THEN CHOOSE i \in 1..Len(commits) :
            /\ commits[i].id \in DOMAIN commit_tags
            /\ \A j \in (i + 1)..Len(commits) : commits[j].id \notin DOMAIN commit_tags
    ELSE 0

\* the commits kept from the tagged commit on
TruncatedCommitsFromTag == SubSeq(commits, LastCommitIndex, Len(commits))

\* commits[last_commit_index..]: the commits after the last tagged one
TruncatedCommits == SubSeq(commits, LastCommitIndex + 1, Len(commits))

\* "Cleanup commits that are within a tag": commits[last_commit_index-1] panics on
\* index 0 (the subtraction overflows, or the index is out of bounds), and parse
\* panics on a tag name it cannot read
Truncate ==
    /\ pc = "start"
    /\ IF LastCommitIndex = 0
       THEN /\ pc' = "panicked"
            /\ UNCHANGED <<commits, version, release_version, idx>>
       ELSE \E last_commit \in {commits[LastCommitIndex]} :
            \E parsed \in {Parse(commit_tags[last_commit.id])} :
                IF ~parsed.ok
                THEN /\ pc' = "panicked"
                     /\ UNCHANGED <<commits, version, release_version, idx>>
                ELSE /\ pc' = "walk"
                     /\ version' = parsed.v
                     /\ release_version' = parsed.v
                     /\ commits' = TruncatedCommits
                     /\ idx' = 1
    /\ UNCHANGED <<args, semver_data, branch, commit_tags, releases, current_release,
                   release_majors, release_minors, release_patches,
                   release_contributors, log, main_vars>>

RunningVersionOnlyAlways(v, commit_type, can_increment) ==
    IF args.always_increment THEN Increment(v, commit_type) ELSE v

RunningVersionEveryCommit(v, commit_type, can_increment) ==
    Increment(v, commit_type)

\* "if can_increment || args.always_increment": the running version after a commit
RunningVersion(v, commit_type, can_increment) ==
    IF can_increment \/ args.always_increment
    THEN Increment(v, commit_type)
    ELSE v

\* what a log line about a commit tells: its tag, the commit, and, on the info! line
\* that ends the loop body, commit_type and whether the commit is being tagged
LogLine(kind, commit, commit_type, tagging) ==
    [kind |-> kind, id |-> commit.id, message |-> commit.message,
     commit_type |-> commit_type, tagging |-> tagging]

\* the message pushed to every list
AccumulateEveryType(list, of_type, commit_type, message) == Append(list, message)

\* "match commit_type": the message is pushed to the list of its type; list is
\* the list of of_type
Accumulate(list, of_type, commit_type, message) ==
    IF commit_type = of_type THEN Append(list, message) ELSE list

\* first_word, follows_format and is_major of every message of the commits above,
\* as the loop body computes them from the message alone
Header ==
    [m \in {k.message : k \in CommitKinds \cup RareKinds \cup {BaseCommit}} |->
        [first_word |-> FirstWordOf(m), follows_format |-> FollowsFormat(m),
         is_major |-> IsMajor(m)]]

\* one pass of the body of "for commit in commits.iter()"
Walk ==
    /\ pc = "walk"
    /\ idx <= Len(commits)
    /\ \E commit \in {commits[idx]} :
       \E first_word \in {Header[commit.message].first_word} :
       \E follows_format \in {Header[commit.message].follows_format} :
       \E is_major \in {Header[commit.message].is_major} :
       LET is_last == commits[Len(commits)].id = commit.id
       IN  IF commit.id \in DOMAIN commit_tags
           THEN \* break
                /\ pc' = "close"
                /\ log' = Append(log, LogLine("TAGGED", commit, "", FALSE))
                /\ UNCHANGED <<idx, releases, current_release, release_version,
                               release_majors, release_minors, release_patches,
                               release_contributors>>
           ELSE IF first_word = <<>>
           THEN \* split_whitespace().next().unwrap()
                /\ pc' = "panicked"
                /\ UNCHANGED <<idx, releases, current_release, release_version,
                               release_majors, release_minors, release_patches,
                               release_contributors, log>>
           ELSE \E loop \in {MapLoop(1, "Patch", first_word[1], follows_format, 0)} :
                \E commit_type \in {BreakingOverride(loop.commit_type, is_major)} :
                \E found \in {FindBranchRule(1)} :
                \E triggered \in {TriggeredReleaseType(ForcedReleaseType(is_last),
                                                      first_word[1], commit_type)} :
                \E can_increment \in {CanIncrement(triggered, commit_type, found.rule)} :
                LET errors == [i \in 1..loop.errors |->
                                 LogLine("ERROR: NON-FORMATTED", commit, "", FALSE)]
                    release_type == BranchReleaseType(triggered, found.rule)
                    majors == Accumulate(release_majors, "Major", commit_type,
                                         commit.message)
                    minors == Accumulate(release_minors, "Minor", commit_type,
                                         commit.message)
                    patches == Accumulate(release_patches, "Patch", commit_type,
                                          commit.message)
                    contributors == AddContributor(release_contributors, commit.author)
                    incremented == RunningVersion(release_version, commit_type,
                                                  can_increment)
                    release == [commit |-> commit.id, tag |-> release_type,
                                version |-> incremented, majors |-> majors,
                                minors |-> minors, patches |-> patches,
                                contributors |-> contributors]
                IN  IF loop.skip
                    THEN \* continue
                         /\ pc' = pc
                         /\ idx' = idx + 1
                         /\ log' = Append(log, LogLine("NON-FORMATTED", commit, "", FALSE))
                         /\ UNCHANGED <<releases, current_release, release_version,
                                        release_majors, release_minors, release_patches,
                                        release_contributors>>
                    ELSE IF loop.exit
                    THEN \* std::process::exit(1)
                         /\ pc' = "exited"
                         /\ log' = log \o errors
                         /\ UNCHANGED <<idx, releases, current_release, release_version,
                                        release_majors, release_minors, release_patches,
                                        release_contributors>>
                    ELSE IF found.panic
                    THEN \* Regex::new(..).unwrap()
                         /\ pc' = "panicked"
                         /\ log' = log \o errors
                         /\ UNCHANGED <<idx, releases, current_release, release_version,
                                        release_majors, release_minors, release_patches,
                                        release_contributors>>
                    ELSE /\ pc' = pc
                         /\ idx' = idx + 1
                         /\ release_version' = incremented
                         /\ IF can_increment
                            THEN /\ releases' = releases \o current_release
                                 /\ current_release' = <<release>>
                                 /\ release_majors' = <<>>
                                 /\ release_minors' = <<>>
                                 /\ release_patches' = <<>>
                                 /\ release_contributors' = <<>>
                            ELSE /\ release_majors' = majors
                                 /\ release_minors' = minors
                                 /\ release_patches' = patches
                                 /\ release_contributors' = contributors
                                 /\ UNCHANGED <<releases, current_release>>
                         /\ log' = (log \o errors)
                                     \o <<LogLine("Commit", commit, commit_type, can_increment)>>
    /\ UNCHANGED <<args, semver_data, branch, commit_tags, commits, version, main_vars>>

\* the return without the push of the open Release
CloseWithoutPush ==
    /\ \/ pc = "walk" /\ idx > Len(commits)
       \/ pc = "close"
    /\ pc' = "done"
    /\ UNCHANGED <<args, semver_data, branch, commit_tags, commits, idx, version,
                   releases, current_release, release_version, release_majors,
                   release_minors, release_patches, release_contributors, log,
                   main_vars>>

\* the return with the open Release following the running version
CloseWithLiveVersion ==
    /\ \/ pc = "walk" /\ idx > Len(commits)
       \/ pc = "close"
    /\ releases' = releases \o [i \in 1..Len(current_release) |->
                                  [current_release[i] EXCEPT !.version = release_version]]
    /\ pc' = "done"
    /\ UNCHANGED <<args, semver_data, branch, commit_tags, commits, idx, version,
                   current_release, release_version, release_majors, release_minors,
                   release_patches, release_contributors, log, main_vars>>

\* "Close the last release." and the return of releases
Close ==
    /\ \/ pc = "walk" /\ idx > Len(commits)
       \/ pc = "close"
    /\ releases' = releases \o current_release
    /\ pc' = "done"
    /\ UNCHANGED <<args, semver_data, branch, commit_tags, commits, idx, version,
                   current_release, release_version, release_majors, release_minors,
                   release_patches, release_contributors, log, main_vars>>

Next == Truncate \/ Walk \/ Close

Spec == Init /\ [][Next]_vars

(***************************************************************************)
(* tag(), feature/tagging.rs, create(), feature/release/github.rs, and the *)
(* loop of main() that calls them for every Release.                       *)
(***************************************************************************)
\* CARGO_PKG_NAME and CARGO_PKG_REPOSITORY, as cargo sets them
app_name == "semver"
app_repository_url == "https://github.com/bsmithcompsci/semver"

\* the entry of repository_types that the URL of origin contains
repository_type == "github"

\* git2::Oid::zero(); any other oid is <<tag>>, the tag object it names
ZeroOid == <<>>

RECURSIVE Bullets(_)
\* the lines "* {}\n" of one section
Bullets(messages) ==
    IF Len(messages) = 0 THEN ""
    ELSE ("* " \o messages[1] \o "\n") \o Bullets(Tail(messages))

\* "## ... Changes:" with its bullets, only for a list that is not empty
Section(title, messages) ==
    IF Len(messages) > 0
    THEN title \o "\n" \o Bullets(messages) \o "\n"
    ELSE ""

RECURSIVE Credits(_)
\* the lines "* {} <{}>\n" of the contributors
Credits(contributors) ==
    IF Len(contributors) = 0 THEN ""
    ELSE ("* " \o contributors[1].name \o " <" \o contributors[1].email \o ">\n")
           \o Credits(Tail(contributors))

TagMessageSectionsReversed(release) ==
    ("# " \o (IF release.tag = "Release" THEN "Release" ELSE "Pre-Release") \o " "
          \o VersionToString(release.version) \o "\n\n")
    \o Section("## Patch Changes:", release.patches)
    \o Section("## Minor Changes:", release.minors)
    \o Section("## Major Changes:", release.majors)
    \o "## Credits:\n" \o Credits(release.contributors) \o "\n"
    \o "---\n"
    \o ("Generated by: [" \o app_name \o "](" \o app_repository_url \o ")")

\* "Build the tag message"
TagMessage(release) ==
    ("# " \o (IF release.tag = "Release" THEN "Release" ELSE "Pre-Release") \o " "
          \o VersionToString(release.version) \o "\n\n")
    \o Section("## Major Changes:", release.majors)
    \o Section("## Minor Changes:", release.minors)
    \o Section("## Patch Changes:", release.patches)
    \o "## Credits:\n" \o Credits(release.contributors) \o "\n"
    \o "---\n"
    \o ("Generated by: [" \o app_name \o "](" \o app_repository_url \o ")")

\* repository.tag(.., force = true), then remote.push: the tag replaces one of
\* the same name; a failed push deletes it again and exits under exit_on_error
TagAndPush(release, push_ok) ==
    LET tag_name == VersionToString(release.version)
        new_tag == [name |-> tag_name, target |-> release.commit,
                    message |-> TagMessage(release)]
        others == SelectSeq(repo_tags, LAMBDA t : t.name # tag_name)
    IN  [oid |-> <<new_tag>>,
         repo_tags |-> IF push_ok THEN Append(others, new_tag) ELSE others,
         remote_tags |-> IF push_ok THEN Append(remote_tags, tag_name) ELSE remote_tags,
         exit |-> ~push_ok /\ args.exit_on_error,
         lines |-> <<LogLine("Message", [id |-> release.commit,
                                         message |-> TagMessage(release)], "", FALSE),
                     LogLine(IF push_ok THEN "Pushed Tag" ELSE "Failed to push Tag",
                             [id |-> release.commit, message |-> tag_name], "", FALSE)>>]

tagWithoutDryRun(release, push_ok) == TagAndPush(release, push_ok)

\* tag(): what it returns (Some(oid)) and what it leaves in the repository, on
\* origin and in the log
tag(release, push_ok) ==
    IF args.dry_run
    THEN [oid |-> ZeroOid, repo_tags |-> repo_tags, remote_tags |-> remote_tags,
          exit |-> FALSE,
          lines |-> <<LogLine("Message", [id |-> release.commit,
                                          message |-> TagMessage(release)], "", FALSE),
                      LogLine("Dry Run: Tagging",
                              [id |-> release.commit,
                               message |-> VersionToString(release.version)],
                              "", FALSE)>>]
    ELSE TagAndPush(release, push_ok)

\* github::create(): Err or Ok, and the releases on the hosting service after it.
\* find_tag(tag_oid) reads the tag object, which tag_delete (it removes the
\* reference refs/tags/<name> only) leaves in the object database.
create(release, tag_oid, send_ok) ==
    IF args.dry_run
    THEN [err |-> FALSE, hosted |-> hosted]
    ELSE IF tag_oid = ZeroOid
    THEN [err |-> TRUE, hosted |-> hosted]
    ELSE IF ~send_ok
    THEN [err |-> TRUE, hosted |-> hosted]
    ELSE [err |-> FALSE,
          hosted |-> Append(hosted,
                       [tag_name |-> VersionToString(release.version),
                        name |-> VersionToString(release.version),
                        body |-> tag_oid[1].message,
                        draft |-> FALSE,
                        prerelease |-> release.tag = "PreRelease",
                        target_commitish |-> release.commit])]

\* supported_repositories holds the repository type, and it is enabled
PublishEnabled ==
    /\ repository_type \in DOMAIN semver_data.tagging.supported_repositories
    /\ semver_data.tagging.supported_repositories[repository_type].enabled

\* one pass of the body of "for release in releases.iter()" of main(); push_ok
\* and send_ok are the answers of origin and of the hosting service
TagRelease ==
    /\ pc = "done"
    /\ rel <= Len(releases)
    /\ \E push_ok \in BOOLEAN, send_ok \in BOOLEAN :
       \E release \in {releases[rel]} :
       \E tagged \in {tag(release, push_ok)} :
          /\ repo_tags' = tagged.repo_tags
          /\ remote_tags' = tagged.remote_tags
          /\ log' = log \o tagged.lines
          /\ IF tagged.exit
             THEN \* std::process::exit(1) in tag()
                  /\ pc' = "exited"
                  /\ UNCHANGED <<rel, hosted>>
             ELSE IF ~PublishEnabled
             THEN /\ rel' = rel + 1
                  /\ UNCHANGED <<pc, hosted>>
             ELSE \E created \in {create(release, tagged.oid, send_ok)} :
                  /\ hosted' = created.hosted
                  /\ IF created.err /\ args.exit_on_error
                     THEN \* std::process::exit(1) in main()
                          /\ pc' = "exited"
                          /\ UNCHANGED rel
                     ELSE /\ rel' = rel + 1
                          /\ UNCHANGED pc
    /\ UNCHANGED <<args, semver_data, branch, commit_tags, commits, idx, version,
                   releases, current_release, release_version, release_majors,
                   release_minors, release_patches, release_contributors>>

\* the flags main() hands to get(), tag() and create()
MainFlags ==
    [force_release : BOOLEAN, force_prerelease : BOOLEAN, always_increment : BOOLEAN,
     skip_non_formatted : BOOLEAN, exit_on_error : BOOLEAN, dry_run : BOOLEAN]

\* "tagging" of the JSON file: no entry for github, a disabled one, an enabled one
TaggingData ==
    { [supported_repositories |-> <<>>],
      [supported_repositories |-> [k \in {"github"} |-> [enabled |-> FALSE]]],
      [supported_repositories |-> [k \in {"github"} |-> [enabled |-> TRUE]]] }

\* a run of main(): every flag, every tail of commits after the tag 1.0.0, the
\* default ruleset, and each tagging section
InitMain ==
    /\ args \in MainFlags
    /\ \E tagging \in TaggingData, tail \in Tails :
          /\ semver_data = [commits |-> DefaultRules, branches |-> <<>>,
                            tagging |-> tagging]
          /\ commits = History(<<"1.0.0">>, tail)
          /\ commit_tags = <<"1.0.0">>
    /\ InitLocals
    /\ branch = "main"
    /\ pc = "start"
    /\ idx = 0
    /\ version = NewVersion
    /\ releases = <<>>
    /\ current_release = <<>>
    /\ release_version = NewVersion
    /\ release_majors = <<>>
    /\ release_minors = <<>>
    /\ release_patches = <<>>
    /\ release_contributors = <<>>
    /\ log = <<>>

NextMain == Next \/ TagRelease

SpecMain == InitMain /\ [][NextMain]_vars

(***************************************************************************)
(* The claims.                                                             *)
(***************************************************************************)
Last(s) == s[Len(s)]

\* the Releases opened so far; the ones get() returns once it is done
Emitted == IF pc = "done" THEN releases ELSE releases \o current_release

\* a <= b by major, then minor, then patch
VersionLeq(a, b) ==
    \/ a.major < b.major
    \/ a.major = b.major /\ a.minor < b.minor
    \/ a.major = b.major /\ a.minor = b.minor /\ a.patch <= b.patch

\* the walk has returned from the inputs of the worked example
ExampleRun ==
    /\ pc = "done"
    /\ semver_data.commits.map \in Orders(ExampleMap)
    /\ ~semver_data.commits.case_sensitive
    /\ semver_data.commits.release = <<>>
    /\ semver_data.commits.prerelease = <<>>
    /\ semver_data.branches = <<>>
    /\ ~args.force_release /\ ~args.force_prerelease /\ ~args.always_increment
    /\ version.major = 1 /\ version.minor = 0 /\ version.patch = 0
    /\ [i \in 1..Len(commits) |-> commits[i].message]
         = <<"feat: add x", "fix: y", "fix!: breaking z">>

\* C1: on the worked example (feat, fix, fix! from 1.0.0) the third commit is
\* classified Major and exactly one Release is returned, 2.0.0, with the three
\* messages in majors, minors and patches.
C1_WorkedExample ==
    ExampleRun =>
        /\ Len(releases) = 1
        /\ releases[1].version.major = 2
        /\ releases[1].version.minor = 0
        /\ releases[1].version.patch = 0
        /\ releases[1].majors = <<"fix!: breaking z">>
        /\ releases[1].minors = <<"feat: add x">>
        /\ releases[1].patches = <<"fix: y">>
        /\ Last(log).message = "fix!: breaking z"
        /\ Last(log).commit_type = "Major"

C1_Witness == ExampleRun /\ semver_data.commits.map[3].key = "Patch"

\* C2: the Releases are in non-decreasing order of version.
C2_VersionsOrdered ==
    \A i, j \in 1..Len(Emitted) :
        i < j => VersionLeq(Emitted[i].version, Emitted[j].version)

C2_Witness ==
    /\ pc = "done"
    /\ Len(releases) = 2
    /\ releases[1].version.minor > 0
    /\ releases[2].version.major > releases[1].version.major

\* C3: under skip_non_formatted a commit that fails the pattern changes no list,
\* no contributor, not the running version and no Release, whatever the ruleset.
C3_NonFormattedSkipped ==
    [][(/\ pc = "walk"
        /\ idx <= Len(commits)
        /\ args.skip_non_formatted
        /\ ~FollowsFormat(commits[idx].message))
       => UNCHANGED <<releases, current_release, release_version, release_majors,
                      release_minors, release_patches, release_contributors>>]_vars

\* C4: every Release has kind Release or PreRelease, never None.
C4_KindNeverNone ==
    \A i \in 1..Len(Emitted) : Emitted[i].tag \in {"Release", "PreRelease"}

\* C5: without any tagged commit the walk starts from 0.0.0 and does not fail.
C5_UntaggedStartsAtZero ==
    (commit_tags = <<>> /\ pc # "start") =>
        /\ pc # "panicked"
        /\ version = NewVersion
        /\ Len(commits) > 0

\* the header matches the pattern with '!' right before its ':'
BreakingHeader(message) ==
    /\ HeaderScan(message, 1, "start") > 0
    /\ CharAt(message, HeaderScan(message, 1, "start") - 1) = "!"

\* the messages of the commits of the inputs
WalkedMessages == {k.message : k \in CommitKinds \cup RareKinds \cup {BaseCommit}}

\* those of the messages whose header carries the breaking marker
BreakingMessages == {m \in WalkedMessages : BreakingHeader(m)}

\* C6: a walked commit with the breaking marker is classified Major, whatever
\* the token map, the default and the case sensitivity.
C6_BreakingIsMajor ==
    \A i \in 1..Len(log) :
        (log[i].kind = "Commit" /\ log[i].message \in BreakingMessages)
            => log[i].commit_type = "Major"

C6_Witness ==
    /\ semver_data.commits.map # <<>>
    /\ \A k \in 1..Len(semver_data.commits.map) :
          ToUpper(semver_data.commits.map[k].key) # "MAJOR"
    /\ \E i \in 1..Len(log) :
          /\ log[i].kind = "Commit"
          /\ log[i].message = "fix!: breaking z"
          /\ log[i].commit_type = "Major"

\* C7: from the running version, a Major increment adds 1 to major and zeroes
\* minor and patch, a Minor one adds 1 to minor, zeroes patch and keeps major,
\* a Patch one adds 1 to patch and keeps major and minor.
C7_Increment ==
    \E v \in {release_version} :
        /\ \E major \in {Increment(v, "Major")} :
              /\ major.major = v.major + 1
              /\ major.minor = 0
              /\ major.patch = 0
        /\ \E minor \in {Increment(v, "Minor")} :
              /\ minor.major = v.major
              /\ minor.minor = v.minor + 1
              /\ minor.patch = 0
        /\ \E patch \in {Increment(v, "Patch")} :
              /\ patch.major = v.major
              /\ patch.minor = v.minor
              /\ patch.patch = v.patch + 1

C7_Witness ==
    /\ pc = "done"
    /\ version.minor > 0
    /\ version.patch > 0
    /\ release_version.major = version.major + 1
    /\ release_version.minor = 0
    /\ release_version.patch = 0

\* C8: the tag name of every Release parses back to the Release's version.
C8_TagNameRoundTrip ==
    \A i \in 1..Len(Emitted) :
        \E parsed \in {Parse(VersionToString(Emitted[i].version))} :
            /\ parsed.ok
            /\ VersionEq(parsed.v, Emitted[i].version)

C8_Witness ==
    /\ pc = "done"
    /\ Len(releases) > 0
    /\ releases[1].version.prefix = <<"v">>
    /\ releases[1].version.suffix = <<"rc">>

\* C9: no Release (and no list being accumulated) holds two Contributors with
\* the same email.
C9_ContributorsUnique ==
    /\ \A i \in 1..Len(Emitted) :
          \A j, k \in 1..Len(Emitted[i].contributors) :
              j # k => Emitted[i].contributors[j].email # Emitted[i].contributors[k].email
    /\ \A j, k \in 1..Len(release_contributors) :
          j # k => release_contributors[j].email # release_contributors[k].email

C9_Witness ==
    /\ pc = "done"
    /\ \E i \in 1..Len(releases) :
          /\ releases[i].minors = <<"feat: add x">>
          /\ releases[i].patches = <<"fix: y">>
          /\ releases[i].contributors = <<Alice>>

NewestProcessedAndAllowed ==
    /\ Len(log) > 0
    /\ Last(log).kind = "Commit"
    /\ Last(log).id = Last(commits).id
    /\ \/ FindBranchRule(1).rule = <<>>
       \/ FindBranchRule(1).rule[1].increment = <<>>
       \/ \E j \in 1..Len(FindBranchRule(1).rule[1].increment[1]) :
             FindBranchRule(1).rule[1].increment[1][j] = Last(log).commit_type

C11_EveryReleaseHasContributor ==
    \A i \in 1..Len(Emitted) : Len(Emitted[i].contributors) > 0

\* C12: no Release has the version 0.0.0, the version of the last tag or the
\* version of another Release of the walk, so the tag names of the Releases differ
\* from each other and from the name of the last tag.
C12_VersionsFresh ==
    pc # "start" =>
        \A i \in 1..Len(Emitted) :
            /\ ~VersionEq(Emitted[i].version, NewVersion)
            /\ ~VersionEq(Emitted[i].version, version)
            /\ \A j \in 1..Len(Emitted) :
                  i # j =>
                    /\ ~VersionEq(Emitted[i].version, Emitted[j].version)
                    /\ VersionToString(Emitted[i].version)
                          # VersionToString(Emitted[j].version)
            /\ \A id \in DOMAIN commit_tags :
                  VersionToString(Emitted[i].version) # commit_tags[id]

C12_Witness ==
    /\ pc = "done"
    /\ Len(releases) = 2
    /\ Len(commits) = 2
    /\ commit_tags = <<"v-0.1.2-rc">>
    /\ VersionToString(releases[1].version) = "v-0.1.3-rc"
    /\ VersionToString(releases[2].version) = "v-1.0.0-rc"

\* C13: with dry_run no tag is created in the repository, none is pushed and no
\* release is created on the hosting service, while the walk still returns its
\* Releases and main() still goes through every one of them.
C13_DryRunNoSideEffects ==
    args.dry_run =>
        /\ repo_tags = <<>>
        /\ remote_tags = <<>>
        /\ hosted = <<>>
        /\ pc # "exited" \/ rel = 1
        /\ \A i \in 1..(rel - 1) :
              \E k \in 1..Len(log) :
                  /\ log[k].kind = "Dry Run: Tagging"
                  /\ log[k].id = releases[i].commit
                  /\ log[k].message = VersionToString(releases[i].version)

C13_Witness ==
    /\ args.dry_run
    /\ args.exit_on_error
    /\ PublishEnabled
    /\ pc = "done"
    /\ Len(releases) = 2
    /\ rel = 3

\* the type token of a message: the leading text of a header that matches the
\* pattern, without scope, '!' and ':'; the first word of any other message
TypeTokenOf(message) ==
    IF HeaderScan(message, 1, "start") > 0
    THEN LET end == CHOOSE k \in 1..Len(message) :
                        /\ CharAt(message, k) \in {"(", "!", ":"}
                        /\ \A j \in 1..(k - 1) : CharAt(message, j) \notin {"(", "!", ":"}
         IN  SubSeq(message, 1, end - 1)
    ELSE FirstWord(message)[1]

\* the entries of the map with a token that matches the type token: equal to it
\* when tokens are case sensitive, contained in it whatever the case otherwise
MatchingEntries(message) ==
    { k \in 1..Len(semver_data.commits.map) :
        \E j \in 1..Len(semver_data.commits.map[k].value) :
            IF semver_data.commits.case_sensitive
            THEN TypeTokenOf(message) = semver_data.commits.map[k].value[j]
            ELSE Contains(ToUpper(TypeTokenOf(message)),
                          ToUpper(semver_data.commits.map[k].value[j])) }

\* the i-th line of the log tells the type of the one entry that matches
ClassifiedByItsEntry(i) ==
    (/\ log[i].kind = "Commit"
     /\ ~BreakingHeader(log[i].message)
     /\ Cardinality(MatchingEntries(log[i].message)) = 1)
    => \A k \in MatchingEntries(log[i].message) :
          log[i].commit_type = KeyCommitType(semver_data.commits.map[k].key)

\* C14: without case_sensitive a token matches a type token that contains it in
\* any letter case: "feat" under Minor classifies "FEAT: x" as Minor.
C14_CaseInsensitiveContainment ==
    ~semver_data.commits.case_sensitive =>
        \A i \in 1..Len(log) : ClassifiedByItsEntry(i)

\* C15: with case_sensitive a commit whose header matches the pattern is
\* classified by the entry holding a token equal to its leading type text:
\* "feat" under Minor classifies "feat: add x" and "feat(rel): a" as Minor.
C15_CaseSensitiveEquality ==
    semver_data.commits.case_sensitive =>
        \A i \in 1..Len(log) :
            FollowsFormat(log[i].message) => ClassifiedByItsEntry(i)

\* the CommitType that the default of the ruleset names
DefaultCommitType ==
    CASE ToUpper(semver_data.commits.default) = "MAJOR" -> "Major"
      [] ToUpper(semver_data.commits.default) = "MINOR" -> "Minor"
      [] OTHER -> "Patch"

\* C16: a commit without breaking marker whose type token no entry of the map
\* matches gets the default type of the ruleset.
C16_DefaultTypeWhenNoMatch ==
    \A i \in 1..Len(log) :
        (/\ log[i].kind = "Commit"
         /\ ~BreakingHeader(log[i].message)
         /\ MatchingEntries(log[i].message) = {})
        => log[i].commit_type = DefaultCommitType

\* C17: without skip_non_formatted and with exit_on_error, the walk exits at
\* the first commit whose message fails the pattern, whatever the ruleset: the
\* commit is not processed and nothing is returned.
C17_ExitAtOldestNonFormatted ==
    [][(/\ pc = "walk"
        /\ idx <= Len(commits)
        /\ ~args.skip_non_formatted
        /\ args.exit_on_error
        /\ ~FollowsFormat(commits[idx].message))
       => /\ pc' = "exited"
          /\ UNCHANGED <<idx, releases, current_release, release_version,
                         release_majors, release_minors, release_patches,
                         release_contributors>>]_vars

\* the lines of one section of a changelog: none for an empty list, else the
\* title, one bullet per message and an empty line
SectionLines(title, messages) ==
    IF messages = <<>> THEN <<>>
    ELSE <<title>> \o [i \in 1..Len(messages) |-> "* " \o messages[i]] \o <<"">>

\* the lines of the changelog of a Release after its header line
LinesAfterHeader(release) ==
    <<"">>
    \o SectionLines("## Major Changes:", release.majors)
    \o SectionLines("## Minor Changes:", release.minors)
    \o SectionLines("## Patch Changes:", release.patches)
    \o <<"## Credits:">>
    \o [i \in 1..Len(release.contributors) |->
          "* " \o release.contributors[i].name
               \o " <" \o release.contributors[i].email \o ">"]
    \o <<"", "---",
         "Generated by: [" \o app_name \o "](" \o app_repository_url \o ")">>

RECURSIVE JoinLines(_)
\* the lines, in order, with a line break between two of them
JoinLines(lines) ==
    IF Len(lines) = 1 THEN lines[1]
    ELSE lines[1] \o "\n" \o JoinLines(Tail(lines))

\* text is the changelog of release as the specification lays it out: the header
\* line for the kind of the release, then the lines after it
IsChangelogOf(text, release) ==
    \E header \in {"# Release", "# Pre-Release"} :
        /\ release.tag = "Release" => header = "# Release"
        /\ release.tag = "PreRelease" => header = "# Pre-Release"
        /\ text = JoinLines(<<header \o " " \o VersionToString(release.version)>>
                              \o LinesAfterHeader(release))

\* C18: the changelog of a Release, as logged, as stored in its tag and as sent
\* to the hosting service, is the header for its kind, then the sections Major,
\* Minor and Patch Changes, each only for a list that is not empty and with one
\* bullet per message in order, then the Credits with one line per contributor
\* in order, then the trailer.
C18_ChangelogLayout ==
    /\ \A k \in 1..Len(log) :
          log[k].kind = "Message" =>
            \E i \in 1..Len(releases) :
                /\ releases[i].commit = log[k].id
                /\ IsChangelogOf(log[k].message, releases[i])
    /\ \A k \in 1..Len(repo_tags) :
          \E j \in 1..Len(log) :
              /\ log[j].kind = "Message"
              /\ log[j].id = repo_tags[k].target
              /\ log[j].message = repo_tags[k].message
    /\ \A k \in 1..Len(hosted) :
          \E j \in 1..Len(log) :
              /\ log[j].kind = "Message"
              /\ log[j].id = hosted[k].target_commitish
              /\ log[j].message = hosted[k].body

C18_Witness ==
    /\ Len(repo_tags) = 1
    /\ repo_tags[1].message
         = "# Release 2.0.0\n\n## Major Changes:\n* fix!: breaking z\n\n## Patch Changes:\n* fix: y\n\n## Credits:\n* alice <a@x.io>\n* bob <bob@x.io>\n\n---\nGenerated by: [semver](https://github.com/bsmithcompsci/semver)"
    /\ Len(hosted) = 1
    /\ hosted[1].body = repo_tags[1].message
    /\ \E k \in 1..Len(log) :
          log[k].kind = "Message" /\ log[k].message = repo_tags[1].message

RECURSIVE Replay(_, _)
\* v after the increments of the processed commits of lines: those that closed a
\* boundary, and every one under always_increment
Replay(v, lines) ==
    IF lines = <<>> THEN v
    ELSE LET line == lines[Len(lines)]
             before == Replay(v, SubSeq(lines, 1, Len(lines) - 1))
         IN  IF line.kind = "Commit" /\ (line.tagging \/ args.always_increment)
             THEN Increment(before, line.commit_type)
             ELSE before

\* C19: the running version, and the version of each Release at its boundary
\* commit, is the seed after the increments of the processed commits so far that
\* closed a boundary, or of all of them under always_increment; without
\* always_increment a commit that closes no boundary leaves the version alone.
C19_VersionIsReplayOfIncrements ==
    pc # "start" =>
        /\ release_version = Replay(version, log)
        /\ \A i \in 1..Len(Emitted) :
              \E k \in 1..Len(log) :
                  /\ log[k].kind = "Commit"
                  /\ log[k].id = Emitted[i].commit
                  /\ log[k].tagging
                  /\ Emitted[i].version = Replay(version, SubSeq(log, 1, k))

C19_Witness ==
    /\ pc = "done"
    /\ ~args.always_increment
    /\ Len(log) = 2
    /\ log[1].kind = "Commit" /\ log[1].commit_type = "Minor" /\ ~log[1].tagging
    /\ log[2].kind = "Commit" /\ log[2].commit_type = "Patch" /\ log[2].tagging
    /\ Len(releases) = 1
    /\ VersionToString(releases[1].version) = "1.0.1"

IsNumber(s) == Len(s) > 0 /\ \A i \in 1..Len(s) : IsDigit(CharAt(s, i))

\* a numeric core: major.minor.patch
IsCore(s) == Len(Split(s, ".")) = 3 /\ \A i \in 1..3 : IsNumber(Split(s, ".")[i])

\* where the numeric core stands among the pieces between '-' of a text of the
\* form [prefix-]major.minor.patch[-suffix]; 0 for a text of another form
CorePosition(text) ==
    LET pieces == Split(text, "-")
    IN  CASE Len(pieces) = 1 /\ IsCore(pieces[1]) -> 1
          [] Len(pieces) = 2 /\ IsCore(pieces[2]) /\ ~IsCore(pieces[1]) -> 2
          [] Len(pieces) = 2 /\ IsCore(pieces[1]) /\ ~IsCore(pieces[2]) -> 1
          [] Len(pieces) = 3 /\ IsCore(pieces[2]) -> 2
          [] OTHER -> 0

\* C21: the seed parsed from a tag name of the form
\* [prefix-]major.minor.patch[-suffix] has the major, minor and patch of the
\* numeric core, with the prefix and the suffix present or absent as in the
\* name; "1.0.0-rc" parses to 1.0.0 with the suffix "rc".
C21_ParseReadsNumericCore ==
    \A id \in DOMAIN commit_tags :
        (pc # "start" /\ CorePosition(commit_tags[id]) > 0) =>
            LET pieces == Split(commit_tags[id], "-")
                core == Split(pieces[CorePosition(commit_tags[id])], ".")
            IN  /\ NatToString(version.major) = StripLeadingZeros(core[1])
                /\ NatToString(version.minor) = StripLeadingZeros(core[2])
                /\ NatToString(version.patch) = StripLeadingZeros(core[3])
                /\ version.prefix = SubSeq(pieces, 1, CorePosition(commit_tags[id]) - 1)
                /\ version.suffix = SubSeq(pieces, CorePosition(commit_tags[id]) + 1,
                                           Len(pieces))

\* the header of a message: its text up to the ':' of the pattern, or its first
\* word when the pattern does not match ("" when it has no word)
HeaderText(message) ==
    IF HeaderScan(message, 1, "start") > 0
    THEN SubSeq(message, 1, HeaderScan(message, 1, "start"))
    ELSE IF FirstWord(message) = <<>> THEN ""
    ELSE FirstWord(message)[1]

\* the headers of the messages of the inputs
HeaderTexts == [m \in WalkedMessages |-> HeaderText(m)]

\* the header holds "(t)" for a release or prerelease trigger token t
HasTriggerToken(message) ==
    \E t \in Range(semver_data.commits.release) \cup Range(semver_data.commits.prerelease) :
        Contains(HeaderTexts[message], "(" \o t \o ")")

\* a Release was opened on the commit
ClosesBoundary(id) == \E i \in 1..Len(Emitted) : Emitted[i].commit = id

\* C23: when no branch rule matches the branch, a processed commit closes a
\* boundary exactly if it is the newest commit under a force flag, or its header
\* holds a trigger token in parentheses, or its type is Major.
C23_BoundaryIffTriggered ==
    (\E found \in {FindBranchRule(1)} : found.rule = <<>> /\ ~found.panic) =>
        \A i \in 1..Len(log) :
            log[i].kind = "Commit" =>
                (ClosesBoundary(log[i].id)
                 <=> \/ /\ log[i].id = Last(commits).id
                        /\ args.force_release \/ args.force_prerelease
                     \/ HasTriggerToken(log[i].message)
                     \/ log[i].commit_type = "Major")

C23_Witness ==
    /\ pc = "done"
    /\ semver_data.branches # <<>>
    /\ FindBranchRule(1).rule = <<>>
    /\ ~args.force_release /\ ~args.force_prerelease
    /\ Len(log) = 2
    /\ log[1].message = "fix!: breaking z" /\ ClosesBoundary(log[1].id)
    /\ log[2].message = "fix: y" /\ ~ClosesBoundary(log[2].id)

\* C24: when the first branch rule that matches the branch sets prerelease, every
\* Release has kind PreRelease, with or without an increment list in that rule.
C24_PrereleaseBranchOnlyPrereleases ==
    (/\ FindBranchRule(1).rule # <<>>
     /\ FindBranchRule(1).rule[1].prerelease = <<TRUE>>)
    => \A i \in 1..Len(Emitted) : Emitted[i].tag = "PreRelease"

\* the step processes a commit whose type the increment list of the first
\* matching branch rule does not hold
ProcessesBarredCommit ==
    /\ pc = "walk"
    /\ FindBranchRule(1).rule # <<>>
    /\ FindBranchRule(1).rule[1].increment # <<>>
    /\ Len(log') > Len(log)
    /\ Last(log').kind = "Commit"
    /\ Last(log').commit_type \notin Range(FindBranchRule(1).rule[1].increment[1])

\* C25: a commit whose type is not in the increment list of the first matching
\* branch rule closes no boundary, whatever its triggers and the force flags; its
\* message is still added to the list of its type, and without always_increment
\* the running version stays as it is.
C25_BarredTypeClosesNoBoundary ==
    [][ProcessesBarredCommit =>
         /\ UNCHANGED <<releases, current_release>>
         /\ ~Last(log').tagging
         /\ release_majors' = IF Last(log').commit_type = "Major"
                              THEN Append(release_majors, Last(log').message)
                              ELSE release_majors
         /\ release_minors' = IF Last(log').commit_type = "Minor"
                              THEN Append(release_minors, Last(log').message)
                              ELSE release_minors
         /\ release_patches' = IF Last(log').commit_type = "Patch"
                               THEN Append(release_patches, Last(log').message)
                               ELSE release_patches
         /\ ~args.always_increment => release_version' = release_version]_vars

C25_Witness ==
    /\ pc = "done"
    /\ args.force_release
    /\ ~args.always_increment
    /\ FindBranchRule(1).rule # <<>>
    /\ FindBranchRule(1).rule[1].increment = << <<"Major">> >>
    /\ Len(log) = 1
    /\ log[1].kind = "Commit"
    /\ log[1].message = "feat(rel): a"
    /\ releases = <<>>
    /\ release_minors = <<"feat(rel): a">>
    /\ release_version = version

\* the entries of order, a sequence of map entries, with a token that the code
\* matches against first_word
MatchedIn(order, first_word) ==
    { k \in 1..Len(order) :
        \E j \in 1..Len(order[k].value) : TokenMatches(first_word, order[k].value[j]) }

\* C26: the type of a commit without breaking marker is the one named by the
\* first entry that matches, in whatever order the entries of the same map are
\* gone through; so it depends on the message and the ruleset only.
C26_FirstMatchDecidesInEveryOrder ==
    \A i \in 1..Len(log) :
        (log[i].kind = "Commit" /\ ~BreakingHeader(log[i].message)) =>
            \A order \in Orders(Range(semver_data.commits.map)) :
                LET matched == MatchedIn(order, FirstWordOf(log[i].message)[1])
                IN  matched # {} =>
                      \A k \in matched :
                          (\A j \in matched : k <= j)
                              => log[i].commit_type = KeyCommitType(order[k].key)

\* the log lines of the processed commits that closed a boundary, oldest first
BoundaryLines == SelectSeq(log, LAMBDA l : l.kind = "Commit" /\ l.tagging)

\* C27: there is exactly one Release per commit that closed a boundary, in commit
\* order and with that commit as its commit; the one opened last is the final
\* entry of the list returned, and nothing follows it.
C27_OneReleasePerBoundary ==
    /\ [i \in 1..Len(Emitted) |-> Emitted[i].commit]
         = [i \in 1..Len(BoundaryLines) |-> BoundaryLines[i].id]
    /\ pc # "done" => [i \in 1..Len(releases) |-> releases[i].commit]
                        = [i \in 1..(Len(BoundaryLines) - 1) |-> BoundaryLines[i].id]

C27_Witness ==
    /\ pc = "done"
    /\ Len(log) = 2
    /\ log[1].kind = "Commit" /\ log[1].tagging
    /\ log[2].kind = "Commit" /\ ~log[2].tagging
    /\ Len(releases) = 1
    /\ releases[1].commit = log[1].id

\* the positions in the log of the processed commits that closed a boundary
BoundaryPositions ==
    SelectSeq([k \in 1..Len(log) |-> k],
              LAMBDA k : log[k].kind = "Commit" /\ log[k].tagging)

\* the messages of the processed commits of type commit_type among the lines
\* first..last of the log, in order
MessagesOf(first, last, commit_type) ==
    LET lines == SelectSeq(SubSeq(log, first, last),
                           LAMBDA l : l.kind = "Commit" /\ l.commit_type = commit_type)
    IN  [k \in 1..Len(lines) |-> lines[k].message]

\* C28: the lists of a Release hold, each in commit order, the messages of the
\* processed commits after the boundary before it up to its own boundary commit,
\* every message in the list of its type and in no other; the commits after the
\* last boundary are in the lists being accumulated and in no Release.
C28_MessagesInTheirRelease ==
    \E at \in {BoundaryPositions}, emitted \in {Emitted} :
        /\ Len(emitted) = Len(at)
        /\ \A i \in 1..Len(at) :
              \E first \in {IF i = 1 THEN 1 ELSE at[i - 1] + 1} :
                  /\ emitted[i].majors = MessagesOf(first, at[i], "Major")
                  /\ emitted[i].minors = MessagesOf(first, at[i], "Minor")
                  /\ emitted[i].patches = MessagesOf(first, at[i], "Patch")
        /\ \E first \in {IF at = <<>> THEN 1 ELSE Last(at) + 1} :
              /\ release_majors = MessagesOf(first, Len(log), "Major")
              /\ release_minors = MessagesOf(first, Len(log), "Minor")
              /\ release_patches = MessagesOf(first, Len(log), "Patch")

C28_Witness ==
    /\ pc = "done"
    /\ Len(releases) = 1
    /\ releases[1].majors = <<"fix!: breaking z">>
    /\ releases[1].minors = <<"feat: add x">>
    /\ releases[1].patches = <<"fix: y">>
    /\ args.always_increment

\* C29: a Release, once opened, keeps its commit, kind, version and lists through
\* every later step of the walk, up to and including the return, while the
\* running version and the lists being accumulated move on.
C29_OpenedReleaseFrozen ==
    [][\A i \in 1..Len(Emitted) :
          /\ i <= Len(Emitted')
          /\ Emitted'[i] = Emitted[i]]_vars

C29_Witness ==
    /\ pc = "done"
    /\ args.always_increment
    /\ Len(releases) = 1
    /\ Len(log) = 2
    /\ releases[1].commit = log[1].id
    /\ releases[1].patches = <<>>
    /\ release_patches # <<>>
    /\ release_contributors # <<>>
    /\ release_version # releases[1].version

\* the step processes the commit at idx to the end of the loop body
ProcessesCommit ==
    /\ pc = "walk"
    /\ Len(log') > Len(log)
    /\ Last(log').kind = "Commit"

\* the contributors after the step: those of the Release it opened, or the list
\* being accumulated
ContributorsAfter ==
    IF Last(log').tagging THEN Last(Emitted').contributors ELSE release_contributors'

\* C30: a processed commit appends its author to the contributors exactly if the
\* e-mail does not contain "noreply." and no e-mail already in the list contains
\* it; and no Contributor of a Release has an e-mail containing "noreply.".
C30_ContributorAppendedIff ==
    /\ [][ProcessesCommit =>
            ContributorsAfter =
                IF /\ ~Contains(commits[idx].author.email, "noreply.")
                   /\ \A j \in 1..Len(release_contributors) :
                         ~Contains(release_contributors[j].email,
                                   commits[idx].author.email)
                THEN Append(release_contributors,
                            [name |-> commits[idx].author.name,
                             email |-> commits[idx].author.email])
                ELSE release_contributors]_vars
    /\ [](\A i \in 1..Len(Emitted) :
            \A j \in 1..Len(Emitted[i].contributors) :
                ~Contains(Emitted[i].contributors[j].email, "noreply."))

C30_Witness ==
    /\ pc = "done"
    /\ Len(log) = 2
    /\ commits[1].author = Carol
    /\ commits[2].author = Alice
    /\ Len(releases) = 1
    /\ releases[1].commit = commits[2].id
    /\ releases[1].contributors = <<Carol>>

\* the header holds "(t)" for a prerelease trigger token t
HasPrereleaseToken(message) ==
    \E t \in Range(semver_data.commits.prerelease) :
        Contains(HeaderTexts[message], "(" \o t \o ")")

\* C31: when no branch rule matches the branch, the Release opened on a commit
\* whose header holds a prerelease trigger token in parentheses is of kind
\* PreRelease, also when the commit is Major, holds a release trigger token too,
\* or is the newest commit under force_release.
C31_PrereleaseTriggerWins ==
    (\E found \in {FindBranchRule(1)} : found.rule = <<>> /\ ~found.panic) =>
        \A k \in 1..Len(log) :
            (log[k].kind = "Commit" /\ HasPrereleaseToken(log[k].message)) =>
                \A i \in 1..Len(Emitted) :
                    Emitted[i].commit = log[k].id => Emitted[i].tag = "PreRelease"

C31_Witness ==
    /\ pc = "done"
    /\ semver_data.branches = <<>>
    /\ args.force_release
    /\ semver_data.commits.release = <<"rel">>
    /\ semver_data.commits.prerelease = <<"pre">>
    /\ Len(commits) = 2
    /\ commits[1].message = "x(rel)(pre) d"
    /\ commits[2].message = "fix(pre)!: c"
    /\ \E k \in 1..Len(log) :
          /\ log[k].kind = "Commit"
          /\ log[k].id = commits[2].id
          /\ log[k].commit_type = "Major"
    /\ Len(releases) = 2
    /\ releases[1].commit = commits[1].id /\ releases[1].tag = "PreRelease"
    /\ releases[2].commit = commits[2].id /\ releases[2].tag = "PreRelease"

\* C32: without dry_run, every release on the hosting service is the release of
\* a tag that is on origin, and of no tag whose push failed.
C32_HostedOnlyAfterPushedTag ==
    ~args.dry_run =>
        \A k \in 1..Len(hosted) :
            /\ \E j \in 1..Len(remote_tags) : remote_tags[j] = hosted[k].tag_name
            /\ \A j \in 1..Len(log) :
                  ~(log[j].kind = "Failed to push Tag"
                    /\ log[j].message = hosted[k].tag_name)

\* the segments parse reads as major, minor and patch: the first three of the
\* piece after the first '-', or of the whole text when it has no '-'
NumericSegments(text) ==
    LET pieces == Split(text, "-")
        segments == Split(IF Len(pieces) > 1 THEN pieces[2] ELSE pieces[1], ".")
    IN  SubSeq(segments, 1, IF Len(segments) > 3 THEN 3 ELSE Len(segments))

\* a segment that parse reads holds no digit
HasDigitlessSegment(text) ==
    \E k \in 1..Len(NumericSegments(text)) :
        \A i \in 1..Len(NumericSegments(text)[k]) :
            ~IsDigit(CharAt(NumericSegments(text)[k], i))

\* C33: once get() has parsed the name of the last tag, parse has failed only if
\* one of the numeric segments holds no digit, and the failure was returned to
\* get(): the process did not abort.
C33_ParseFailureIsReturned ==
    \A id \in DOMAIN commit_tags :
        (pc # "start" /\ ~Parse(commit_tags[id]).ok) =>
            /\ HasDigitlessSegment(commit_tags[id])
            /\ pc # "panicked"

\* C34: the walk never aborts the process at a commit whose message is empty or
\* holds no whitespace-delimited token; the commit is left to the policy of the
\* flags and the commits after it are still processed.
C34_NoTokenMessageDoesNotAbort ==
    ~(/\ pc = "panicked"
      /\ idx \in 1..Len(commits)
      /\ FirstWord(commits[idx].message) = <<>>)

\* a branch rule of the ruleset has a name that is no regular expression
HasInvalidBranchPattern ==
    \E k \in 1..Len(semver_data.branches) : ~RegexIsValid(semver_data.branches[k].name)

\* C35: with a branch rule whose name is an invalid regular expression, get()
\* never returns, no commit is passed, classified or accumulated, and no Release
\* is opened, wherever the rule stands and whatever the commits are.
C35_InvalidBranchPatternRejected ==
    HasInvalidBranchPattern =>
        /\ pc \notin {"close", "done"}
        /\ idx <= 1
        /\ log = <<>>
        /\ Emitted = <<>>
        /\ release_majors = <<>> /\ release_minors = <<>> /\ release_patches = <<>>
        /\ release_contributors = <<>>

====
